---- MODULE Spec2Model ----
(***************************************************************************)
(* Server-authoritative build timer: the transactional start path          *)
(* (BuildTimerService.startBuild), the resource ledger (UserResources),    *)
(* the build registry (Build) and the completion paths                     *)
(* (SchedulerService.processCompletedBuilds,                               *)
(* BuildTimerService.completeBuild / recoverCompletedBuilds).              *)
(*                                                                         *)
(* Every action is one turn of the JavaScript event loop: the synchronous  *)
(* code that runs between two awaited store operations.  A store operation *)
(* either resolves or rejects; a rejection is an injected fault, counted   *)
(* in faults.                                                              *)
(***************************************************************************)
EXTENDS Integers, Sequences, FiniteSets, TLC

\* ---------------------------------------------------------------- bounds
MaxCalls == 2       \* startBuild calls issued
MaxTime == 2        \* the clock runs 0..MaxTime
MaxFaults == 1      \* store operations that reject
MaxRecords == 3     \* build records on disk when the process restarts

\* ------------------------------------------------------------- constants
Null == -1          \* a null endTime / duration column
Absent == -1        \* an optional cost field the DTO leaves out
NullMsg == "null"   \* a null errorMessage column

RUNNING == "running"
COMPLETED == "completed"
FAILED == "failed"
PENDING == "pending"

Users == {"u1", "u2"}            \* users that have a user_resources row
UserIds == Users \cup {"u0"}     \* "u0" has no row
BuildTypes == {"barracks"}
Durations == {1, 2}
\* The request handlers that can be inside startBuild at the same time.
Procs == {1, 2}

\* The ledger rows present when the service starts.
InitBalance ==
  [u \in Users |->
     IF u = "u1" THEN [wood |-> 100, clay |-> 60, iron |-> 0, crop |-> 0]
                 ELSE [wood |-> 60, clay |-> 0, iron |-> 0, crop |-> 60]]

\* The cost fields of the requests: wood only; wood and crop; clay and a
\* zero iron cost; no cost field at all.
CostVectors ==
  { [woodCost |-> 60, clayCost |-> Absent, ironCost |-> Absent, cropCost |-> Absent],
    [woodCost |-> 60, clayCost |-> Absent, ironCost |-> Absent, cropCost |-> 60],
    [woodCost |-> Absent, clayCost |-> 60, ironCost |-> 0, cropCost |-> Absent],
    [woodCost |-> Absent, clayCost |-> Absent, ironCost |-> Absent, cropCost |-> Absent] }

StartBuildDto ==
  { [userId |-> u, buildType |-> t, duration |-> d,
     woodCost |-> c.woodCost, clayCost |-> c.clayCost,
     ironCost |-> c.ironCost, cropCost |-> c.cropCost] :
       u \in UserIds, t \in BuildTypes, d \in Durations, c \in CostVectors }

NoDto ==
  [userId |-> "", buildType |-> "", duration |-> 0,
   woodCost |-> Absent, clayCost |-> Absent, ironCost |-> Absent, cropCost |-> Absent]

NoRes == [wood |-> 0, clay |-> 0, iron |-> 0, crop |-> 0]

NoBuild ==
  [id |-> 0, userId |-> "", buildType |-> "", startTime |-> 0, executeAt |-> 0,
   endTime |-> Null, duration |-> Null, status |-> PENDING, isValid |-> TRUE,
   errorMessage |-> NullMsg,
   woodCost |-> 0, clayCost |-> 0, ironCost |-> 0, cropCost |-> 0]

VARIABLES
  now,           \* the server clock (new Date())
  resources,     \* committed user_resources rows: userId -> balance
  builds,        \* committed builds rows, builds[i].id = i
  lock,          \* pessimistic_write row lock: userId -> holder (0 = free)
  sb,            \* the startBuild calls: call slot -> frame
  sched,         \* the frame of processCompletedBuilds
  isProcessing,  \* SchedulerService.isProcessing
  lastFire,      \* what the last cron fire did
  rec,           \* the frame of recoverCompletedBuilds
  calls,         \* startBuild calls issued so far
  paid,          \* userId -> the summed costs of the calls that returned a build
  faults,        \* store operations that rejected so far
  timer,         \* the in-memory BuildTimer: its options and its builds Map
  out            \* what the last query or BuildTimer call returned or threw

vars == <<now, resources, builds, lock, sb, sched, isProcessing, lastFire, rec, calls, paid, faults,
          timer, out>>

\* ------------------------------------------------------- pure operators

\* dto.xCost || 0
CostOf(c) == IF c = Absent THEN 0 ELSE c

Plus(a, b) ==
  [wood |-> a.wood + b.wood, clay |-> a.clay + b.clay,
   iron |-> a.iron + b.iron, crop |-> a.crop + b.crop]

Minus(a, b) ==
  [wood |-> a.wood - b.wood, clay |-> a.clay - b.clay,
   iron |-> a.iron - b.iron, crop |-> a.crop - b.crop]

DtoCost(dto) ==
  [wood |-> CostOf(dto.woodCost), clay |-> CostOf(dto.clayCost),
   iron |-> CostOf(dto.ironCost), crop |-> CostOf(dto.cropCost)]

\* Mutant: the wood comparison is left out of the resource check.
SufficientNoWood(ur, dto) ==
  ~ (\/ ur.clay < CostOf(dto.clayCost)
     \/ ur.iron < CostOf(dto.ironCost)
     \/ ur.crop < CostOf(dto.cropCost))

\* Mutant: the crop comparison is left out of the resource check.
SufficientNoCrop(ur, dto) ==
  ~ (\/ ur.wood < CostOf(dto.woodCost)
     \/ ur.clay < CostOf(dto.clayCost)
     \/ ur.iron < CostOf(dto.ironCost))

\* The negation of the "Validate resources" condition.
Sufficient(ur, dto) ==
  ~ (\/ ur.wood < CostOf(dto.woodCost)
     \/ ur.clay < CostOf(dto.clayCost)
     \/ ur.iron < CostOf(dto.ironCost)
     \/ ur.crop < CostOf(dto.cropCost))

\* "Deduct resources atomically": the in-memory entity after the four -=.
Deduct(ur, dto) ==
  [wood |-> ur.wood - CostOf(dto.woodCost),
   clay |-> ur.clay - CostOf(dto.clayCost),
   iron |-> ur.iron - CostOf(dto.ironCost),
   crop |-> ur.crop - CostOf(dto.cropCost)]

\* Mutant: executeAt is the start time, the requested duration is dropped.
NewBuildNoDuration(dto, t) ==
  [id |-> 0, userId |-> dto.userId, buildType |-> dto.buildType,
   startTime |-> t, executeAt |-> t,
   endTime |-> Null, duration |-> Null, status |-> RUNNING, isValid |-> TRUE,
   errorMessage |-> NullMsg,
   woodCost |-> CostOf(dto.woodCost), clayCost |-> CostOf(dto.clayCost),
   ironCost |-> CostOf(dto.ironCost), cropCost |-> CostOf(dto.cropCost)]

\* Mutant: status is left out of create, the column default applies.
NewBuildDefaultStatus(dto, t) ==
  [id |-> 0, userId |-> dto.userId, buildType |-> dto.buildType,
   startTime |-> t, executeAt |-> t + dto.duration,
   endTime |-> Null, duration |-> Null, status |-> PENDING, isValid |-> TRUE,
   errorMessage |-> NullMsg,
   woodCost |-> CostOf(dto.woodCost), clayCost |-> CostOf(dto.clayCost),
   ironCost |-> CostOf(dto.ironCost), cropCost |-> CostOf(dto.cropCost)]

\* Mutant: the cost fields are left out of create, the column defaults apply.
NewBuildDefaultCost(dto, t) ==
  [id |-> 0, userId |-> dto.userId, buildType |-> dto.buildType,
   startTime |-> t, executeAt |-> t + dto.duration,
   endTime |-> Null, duration |-> Null, status |-> RUNNING, isValid |-> TRUE,
   errorMessage |-> NullMsg,
   woodCost |-> 0, clayCost |-> 0, ironCost |-> 0, cropCost |-> 0]

\* manager.create(Build, {...}) at time t; the id is generated on insert.
NewBuild(dto, t) ==
  [id |-> 0, userId |-> dto.userId, buildType |-> dto.buildType,
   startTime |-> t, executeAt |-> t + dto.duration,
   endTime |-> Null, duration |-> Null, status |-> RUNNING, isValid |-> TRUE,
   errorMessage |-> NullMsg,
   woodCost |-> CostOf(dto.woodCost), clayCost |-> CostOf(dto.clayCost),
   ironCost |-> CostOf(dto.ironCost), cropCost |-> CostOf(dto.cropCost)]

\* Mutant: a duration of 0 counts as valid.
validateDurationNonNegative(duration) == duration >= 0

validateDuration(duration) == duration > 0

\* Mutant: the record is closed at its planned time, not at the current time.
CompleteEntityAtExecuteAt(b, t, status) ==
  [b EXCEPT !.endTime = b.executeAt, !.duration = b.executeAt - b.startTime,
            !.status = status, !.isValid = validateDuration(b.executeAt - b.startTime)]

\* Mutant: executeAt is moved to the time of completion.
CompleteEntityMovesExecuteAt(b, t, status) ==
  [b EXCEPT !.endTime = t, !.duration = t - b.startTime, !.executeAt = t,
            !.status = status, !.isValid = validateDuration(t - b.startTime)]

\* Mutant: build.status = status is left out.
CompleteEntityKeepStatus(b, t, status) ==
  [b EXCEPT !.endTime = t, !.duration = t - b.startTime,
            !.isValid = validateDuration(t - b.startTime)]

\* The assignments of completeBuild to the loaded entity, at time t.
CompleteEntity(b, t, status) ==
  [b EXCEPT !.endTime = t, !.duration = t - b.startTime,
            !.status = status, !.isValid = validateDuration(t - b.startTime)]

\* The catch block of recoverCompletedBuilds, on the entity of the due list.
MarkFailed(b, msg) == [b EXCEPT !.status = FAILED, !.errorMessage = msg]

BuildIds == 1..Len(builds)

\* Mutant: executeAt < :now, a record due exactly now is left out.
DueStrict(t) == {i \in BuildIds : builds[i].status = RUNNING /\ builds[i].executeAt < t}

\* WHERE status = 'running' AND executeAt <= :now
Due(t) == {i \in BuildIds : builds[i].status = RUNNING /\ builds[i].executeAt <= t}

\* ... ORDER BY executeAt ASC: every ordering of the due rows that is
\* ascending in executeAt (rows with equal executeAt come in either order).
getBuildsToComplete(t) ==
  LET d == Due(t)
      n == Cardinality(d)
  IN {s \in [1..n -> d] :
        /\ \A i, j \in 1..n : i # j => s[i] # s[j]
        /\ \A i, j \in 1..n : i < j => builds[s[i]].executeAt <= builds[s[j]].executeAt}

\* Mutant: the user's builds come oldest first.
getUserBuildsAscending(u) ==
  LET d == {i \in BuildIds : builds[i].userId = u}
      n == Cardinality(d)
  IN {s \in [1..n -> d] :
        /\ \A i, j \in 1..n : i # j => s[i] # s[j]
        /\ \A i, j \in 1..n : i < j => builds[s[i]].startTime <= builds[s[j]].startTime}

\* find({ where: { userId }, order: { startTime: 'DESC' } }): every ordering
\* of the user's rows that is descending in startTime.
getUserBuilds(u) ==
  LET d == {i \in BuildIds : builds[i].userId = u}
      n == Cardinality(d)
  IN {s \in [1..n -> d] :
        /\ \A i, j \in 1..n : i # j => s[i] # s[j]
        /\ \A i, j \in 1..n : i < j => builds[s[i]].startTime >= builds[s[j]].startTime}

\* find({ where: { status: RUNNING }, order: { executeAt: 'ASC' } })
getRunningBuilds ==
  LET d == {i \in BuildIds : builds[i].status = RUNNING}
      n == Cardinality(d)
  IN {s \in [1..n -> d] :
        /\ \A i, j \in 1..n : i # j => s[i] # s[j]
        /\ \A i, j \in 1..n : i < j => builds[s[i]].executeAt <= builds[s[j]].executeAt}

\* repository.save(entity): the row of the entity's id becomes the entity.
SaveBuild(b) == [builds EXCEPT ![b.id] = b]

\* ------------------------------------------------ in-memory BuildTimer
Infinity == -2      \* options.maxDuration when no maximum is given

\* new BuildTimer() / new BuildTimer({}): no option is given.
NoOptions == [minDuration |-> Absent, maxDuration |-> Absent]

\* The options the timer is constructed with.
TimerOptions ==
  {[minDuration |-> a, maxDuration |-> b] : a \in {Absent, 1}, b \in {Absent, 1}}

TimerIds == {"b1", "b2"}
Tolerances == {0, 1}

\* constructor: an empty Map, maxDuration ?? Infinity, minDuration ?? 0.
BuildTimer(options) ==
  [options |-> [maxDuration |-> IF options.maxDuration = Absent THEN Infinity
                                ELSE options.maxDuration,
                minDuration |-> IF options.minDuration = Absent THEN 0
                                ELSE options.minDuration],
   builds |-> << >>]

\* The result of a call: what it threw, or the value it returned.
NoOut == [op |-> "none", arg |-> << >>, threw |-> "none", value |-> << >>]

\* --------------------------------------------------------------- Init
IdleCall ==
  [pc |-> "idle", dto |-> NoDto, ur |-> NoRes, build |-> NoBuild,
   err |-> "none", result |-> "none", ret |-> NoBuild, tx |-> "none"]

\* now is the `const now = new Date()` of the pending getBuildsToComplete call.
IdleSched == [pc |-> "idle", now |-> Null, list |-> <<>>, idx |-> 0, build |-> NoBuild]

IdleRec ==
  [pc |-> "idle", now |-> Null, list |-> <<>>, idx |-> 0, build |-> NoBuild, err |-> NullMsg,
   recovered |-> 0, outcome |-> "none"]

Init ==
  /\ now = 0
  /\ resources = InitBalance
  /\ builds = <<>>
  /\ lock = [u \in Users |-> 0]
  /\ sb = [p \in Procs |-> IdleCall]
  /\ sched = IdleSched
  /\ isProcessing = FALSE
  /\ lastFire = "none"
  /\ rec = IdleRec
  /\ calls = 0
  /\ paid = [u \in Users |-> NoRes]
  /\ faults = 0
  /\ timer = BuildTimer(NoOptions)
  /\ out = NoOut

\* A store operation may reject while the fault budget lasts.
CanFail == faults < MaxFaults

\* ---------------------------------------------------------- the clock
Advance ==
  /\ now < MaxTime
  /\ now' = now + 1
  /\ UNCHANGED <<resources, builds, lock, sb, sched, isProcessing, lastFire, rec, calls, paid, faults,
               timer, out>>

\* ------------------------------------------------------- startBuild
\* Mutant: one lock guards the whole table, not the user's row.
LockFreeGlobal(u) == \A v \in Users : lock[v] = 0

\* The row lock of findOne(..., lock: pessimistic_write): the query waits
\* while another transaction holds the row.
LockFree(u) == lock[u] = 0

ReleaseLock(p) == [u \in Users |-> IF lock[u] = p THEN 0 ELSE lock[u]]

\* The ledger and the registry as commitTransaction makes them.
CommittedResources(p) == [resources EXCEPT ![sb[p].dto.userId] = sb[p].ur]

CommittedBuild(p) == [sb[p].build EXCEPT !.id = Len(builds) + 1]

\* Mutant: the insert also closes the records the user already has.
CommittedBuildsClosesOlder(p) ==
  Append([i \in 1..Len(builds) |->
            IF builds[i].userId = sb[p].dto.userId /\ builds[i].status = RUNNING
              THEN [builds[i] EXCEPT !.status = COMPLETED, !.endTime = now,
                                     !.duration = now - builds[i].startTime]
              ELSE builds[i]],
         CommittedBuild(p))

CommittedBuilds(p) == Append(builds, CommittedBuild(p))

\* Mutant: the ledger save runs outside the transaction, so a rollback after
\* it leaves the deduction in place.
RolledBackResourcesLeak(p) ==
  IF sb[p].build # NoBuild
    THEN [resources EXCEPT ![sb[p].dto.userId] = sb[p].ur]
    ELSE resources

\* The ledger as rollbackTransaction leaves it.
RolledBackResources(p) == resources

\* A throw inside the try block: control enters the catch block, which calls
\* rollbackTransaction and keeps the error to rethrow it.
Throw(p, result) ==
  sb' = [sb EXCEPT ![p] = [@ EXCEPT !.pc = "rollingBack", !.err = result]]

\* The call has settled: it returned ret or rejected with result. The frame
\* keeps the request only of a call refused for its resources.
Settled(p, result) ==
  [IdleCall EXCEPT !.pc = "done", !.result = result, !.tx = sb[p].tx,
                   !.dto = IF result = "InsufficientResources" THEN sb[p].dto ELSE NoDto,
                   !.ret = IF result = "ok" THEN sb[p].ret ELSE NoBuild]

\* A handler is free to take a call; the lowest free handler takes it (the
\* handlers are interchangeable). A handler whose transaction was left open
\* with a row locked is not used again.
Reusable(p) ==
  /\ sb[p].pc \in {"idle", "done"}
  /\ \A u \in Users : lock[u] # p

Free(p) ==
  /\ Reusable(p)
  /\ \A q \in Procs : q < p => ~ Reusable(q)
  /\ calls < MaxCalls

\* startBuild(dto) is called: createQueryRunner, the call of connect.
StartBuildBegin(p, dto) ==
  /\ Free(p)
  /\ calls' = calls + 1
  /\ sb' = [sb EXCEPT ![p] = [IdleCall EXCEPT !.pc = "connecting", !.dto = dto]]
  /\ UNCHANGED <<now, resources, builds, lock, sched, isProcessing, lastFire, rec, paid, faults, timer, out>>

\* connect resolves; startTransaction is called.
StartBuildConnect(p) ==
  /\ sb[p].pc = "connecting"
  /\ sb' = [sb EXCEPT ![p] = [@ EXCEPT !.pc = "starting"]]
  /\ UNCHANGED <<now, resources, builds, lock, sched, isProcessing, lastFire, rec, calls, paid, faults, timer, out>>

\* startTransaction resolves; findOne with the row lock is called.
StartBuildStartTransaction(p) ==
  /\ sb[p].pc = "starting"
  /\ sb' = [sb EXCEPT ![p] = [@ EXCEPT !.pc = "begun", !.tx = "active"]]
  /\ UNCHANGED <<now, resources, builds, lock, sched, isProcessing, lastFire, rec, calls, paid, faults, timer, out>>

\* connect or startTransaction rejects: outside the try, nothing to roll
\* back and nothing to release.
StartBuildBeginFail(p) ==
  /\ sb[p].pc \in {"connecting", "starting"}
  /\ CanFail
  /\ faults' = faults + 1
  /\ sb' = [sb EXCEPT ![p] = Settled(p, "StoreError")]
  /\ UNCHANGED <<now, resources, builds, lock, sched, isProcessing, lastFire, rec, calls, paid, timer, out>>

\* Mutant: the null check after findOne is missing; the resource check then reads
\* a field of null and the call fails with a TypeError.
StartBuildFindNoNullCheck(p) ==
  /\ sb[p].pc = "begun"
  /\ LET dto == sb[p].dto
         u == dto.userId
     IN IF u \notin DOMAIN resources
          THEN Throw(p, "TypeError") /\ UNCHANGED lock
          ELSE /\ LockFree(u)
               /\ lock' = [lock EXCEPT ![u] = p]
               /\ IF Sufficient(resources[u], dto)
                    THEN sb' = [sb EXCEPT ![p] = [@ EXCEPT !.pc = "savingRes",
                                          !.ur = Deduct(resources[u], dto)]]
                    ELSE Throw(p, "InsufficientResources")
  /\ UNCHANGED <<now, resources, builds, sched, isProcessing, lastFire, rec, calls, paid, faults, timer, out>>

\* findOne with the row lock resolves, the row now locked by this
\* transaction; then, in the same turn, the null check, the resource check,
\* the deduction and the call of save, or a throw into the catch block.
StartBuildFind(p) ==
  /\ sb[p].pc = "begun"
  /\ LET dto == sb[p].dto
         u == dto.userId
     IN IF u \notin DOMAIN resources
          THEN Throw(p, "NotFound") /\ UNCHANGED lock
          ELSE /\ LockFree(u)
               /\ lock' = [lock EXCEPT ![u] = p]
               /\ IF Sufficient(resources[u], dto)
                    THEN sb' = [sb EXCEPT ![p] = [@ EXCEPT !.pc = "savingRes",
                                          !.ur = Deduct(resources[u], dto)]]
                    ELSE Throw(p, "InsufficientResources")
  /\ UNCHANGED <<now, resources, builds, sched, isProcessing, lastFire, rec, calls, paid, faults, timer, out>>

\* findOne rejects: no row is locked.
StartBuildFindFail(p) ==
  /\ sb[p].pc = "begun"
  /\ CanFail
  /\ faults' = faults + 1
  /\ Throw(p, "StoreError")
  /\ UNCHANGED <<now, resources, builds, lock, sched, isProcessing, lastFire, rec, calls, paid, timer, out>>

\* save(userResources) resolves inside the transaction; then startTime,
\* executeAt, create and the call of save(build).
StartBuildSaveResources(p) ==
  /\ sb[p].pc = "savingRes"
  /\ sb' = [sb EXCEPT ![p] = [@ EXCEPT !.pc = "savingBuild",
                                        !.build = NewBuild(sb[p].dto, now)]]
  /\ UNCHANGED <<now, resources, builds, lock, sched, isProcessing, lastFire, rec, calls, paid, faults, timer, out>>

\* save(build) resolves inside the transaction; commitTransaction is called.
StartBuildSaveBuild(p) ==
  /\ sb[p].pc = "savingBuild"
  /\ sb' = [sb EXCEPT ![p] = [@ EXCEPT !.pc = "committing"]]
  /\ UNCHANGED <<now, resources, builds, lock, sched, isProcessing, lastFire, rec, calls, paid, faults, timer, out>>

\* commitTransaction resolves: both writes become visible and the lock is
\* released; return savedBuild enters the finally block, which calls release.
StartBuildCommit(p) ==
  /\ sb[p].pc = "committing"
  /\ resources' = CommittedResources(p)
  /\ builds' = CommittedBuilds(p)
  /\ lock' = ReleaseLock(p)
  /\ sb' = [sb EXCEPT ![p] = [@ EXCEPT !.pc = "releasing", !.tx = "committed",
                                        !.ur = NoRes, !.build = NoBuild,
                                        !.ret = CommittedBuild(p)]]
  /\ UNCHANGED <<now, sched, isProcessing, lastFire, rec, calls, paid, faults, timer, out>>

\* save(userResources), save(build) or commitTransaction rejects.
StartBuildWriteFail(p) ==
  /\ sb[p].pc \in {"savingRes", "savingBuild", "committing"}
  /\ CanFail
  /\ faults' = faults + 1
  /\ Throw(p, "StoreError")
  /\ UNCHANGED <<now, resources, builds, lock, sched, isProcessing, lastFire, rec, calls, paid, timer, out>>

\* rollbackTransaction resolves: the writes of the transaction are dropped
\* and the lock is released; throw error enters the finally block, which
\* calls release.
StartBuildRollback(p) ==
  /\ sb[p].pc = "rollingBack"
  /\ resources' = RolledBackResources(p)
  /\ lock' = ReleaseLock(p)
  /\ sb' = [sb EXCEPT ![p] = [@ EXCEPT !.pc = "releasing", !.tx = "rolledback",
                                        !.ur = NoRes, !.build = NoBuild]]
  /\ UNCHANGED <<now, builds, sched, isProcessing, lastFire, rec, calls, paid, faults, timer, out>>

\* rollbackTransaction rejects: its error takes the place of the one caught,
\* the transaction stays open and keeps its lock; finally calls release.
StartBuildRollbackFail(p) ==
  /\ sb[p].pc = "rollingBack"
  /\ CanFail
  /\ faults' = faults + 1
  /\ sb' = [sb EXCEPT ![p] = [@ EXCEPT !.pc = "releasing", !.err = "StoreError",
                                        !.ur = NoRes, !.build = NoBuild]]
  /\ UNCHANGED <<now, resources, builds, lock, sched, isProcessing, lastFire, rec, calls, paid, timer, out>>

\* release resolves: the call returns the saved build or rejects with the
\* error the catch block threw.
StartBuildRelease(p) ==
  /\ sb[p].pc = "releasing"
  /\ sb' = [sb EXCEPT ![p] = Settled(p, IF sb[p].err = "none" THEN "ok" ELSE sb[p].err)]
  /\ paid' = IF sb[p].err = "none"
               THEN [paid EXCEPT ![sb[p].dto.userId] = Plus(@, DtoCost(sb[p].dto))]
               ELSE paid
  /\ UNCHANGED <<now, resources, builds, lock, sched, isProcessing, lastFire, rec, calls, faults, timer, out>>

\* release rejects: the call rejects with that error, whatever it was about
\* to return or throw.
StartBuildReleaseFail(p) ==
  /\ sb[p].pc = "releasing"
  /\ CanFail
  /\ faults' = faults + 1
  /\ sb' = [sb EXCEPT ![p] = Settled(p, "StoreError")]
  /\ UNCHANGED <<now, resources, builds, lock, sched, isProcessing, lastFire, rec, calls, paid, timer, out>>

\* The startBuild calls whose requests are drawn from the set D.
StartBuild(D) ==
  \E p \in Procs :
    \/ \E dto \in D : StartBuildBegin(p, dto)
    \/ StartBuildConnect(p)
    \/ StartBuildStartTransaction(p)
    \/ StartBuildBeginFail(p)
    \/ StartBuildFind(p)
    \/ StartBuildFindFail(p)
    \/ StartBuildSaveResources(p)
    \/ StartBuildSaveBuild(p)
    \/ StartBuildCommit(p)
    \/ StartBuildWriteFail(p)
    \/ StartBuildRollback(p)
    \/ StartBuildRollbackFail(p)
    \/ StartBuildRelease(p)
    \/ StartBuildReleaseFail(p)

\* ---------------------------------------------------- completeBuild
NotFoundMsg == "not found"
NotRunningMsg == "is not running"
StoreErrorMsg == "store error"

\* Mutant: the status guard of completeBuild is left out.
completeBuildNoGuard(id, status, t) ==
  IF id \notin BuildIds
    THEN [outcome |-> NotFoundMsg, build |-> NoBuild]
    ELSE [outcome |-> "loaded", build |-> CompleteEntity(builds[id], t, status)]

\* completeBuild from the moment findOne resolves, at time t, to the call of
\* save: the exception thrown, or the entity handed to save.
completeBuild(id, status, t) ==
  IF id \notin BuildIds
    THEN [outcome |-> NotFoundMsg, build |-> NoBuild]
    ELSE IF builds[id].status # RUNNING
      THEN [outcome |-> NotRunningMsg, build |-> NoBuild]
      ELSE [outcome |-> "loaded", build |-> CompleteEntity(builds[id], t, status)]

\* getBuild(id): the stored record, or NotFoundException.
getBuild(id) ==
  IF id \notin BuildIds
    THEN [outcome |-> NotFoundMsg, build |-> NoBuild]
    ELSE [outcome |-> "ok", build |-> builds[id]]

\* ------------------------------------------- processCompletedBuilds
\* Mutant: the finally block is missing, the flag stays set.
SchedFinishKeepsFlag ==
  /\ sched' = IdleSched
  /\ UNCHANGED isProcessing

\* finally: isProcessing = false.
SchedFinish ==
  /\ sched' = IdleSched
  /\ isProcessing' = FALSE

\* The for loop moves to the next build of the list, or the batch ends.
SchedAdvance ==
  IF sched.idx < Len(sched.list)
    THEN /\ sched' = [sched EXCEPT !.pc = "complete1", !.idx = @ + 1, !.build = NoBuild]
         /\ UNCHANGED isProcessing
    ELSE SchedFinish

\* A completeBuild call of the tick threw (msg is only logged): the first call
\* of a build is caught by the inner catch, which calls
\* completeBuild(id, FAILED); the second is caught by the outer catch.
SchedCatch(msg) ==
  IF sched.pc \in {"complete1", "save1"}
    THEN /\ sched' = [sched EXCEPT !.pc = "complete2", !.build = NoBuild]
         /\ UNCHANGED isProcessing
    ELSE SchedFinish

\* Mutant: the isProcessing check at the head of the tick is left out.
TickFireNoGuard ==
  /\ lastFire' = "started"
  /\ isProcessing' = TRUE
  /\ sched' = [IdleSched EXCEPT !.pc = "query", !.now = now]
  /\ UNCHANGED <<now, resources, builds, lock, sb, rec, calls, paid, faults, timer, out>>

\* The cron fires: the tick that is not skipped calls getBuildsToComplete,
\* which reads the clock and issues the query with it bound as :now.
TickFire ==
  /\ IF isProcessing
       THEN /\ lastFire' = "skipped"
            /\ UNCHANGED <<sched, isProcessing>>
       ELSE /\ lastFire' = "started"
            /\ isProcessing' = TRUE
            /\ sched' = [IdleSched EXCEPT !.pc = "query", !.now = now]
  /\ UNCHANGED <<now, resources, builds, lock, sb, rec, calls, paid, faults, timer, out>>

\* getMany of getBuildsToComplete resolves: the rows as stored now that were
\* due at the time of the call.
TickQuery ==
  /\ sched.pc = "query"
  /\ \E l \in getBuildsToComplete(sched.now) :
       IF l = <<>>
         THEN SchedFinish
         ELSE /\ sched' = [sched EXCEPT !.pc = "complete1", !.now = Null,
                                        !.list = l, !.idx = 1]
              /\ UNCHANGED isProcessing
  /\ UNCHANGED <<now, resources, builds, lock, sb, lastFire, rec, calls, paid, faults, timer, out>>

TickQueryFail ==
  /\ sched.pc = "query"
  /\ CanFail
  /\ faults' = faults + 1
  /\ SchedFinish
  /\ UNCHANGED <<now, resources, builds, lock, sb, lastFire, rec, calls, paid, timer, out>>

\* findOne of completeBuild resolves.
TickLoad ==
  /\ sched.pc \in {"complete1", "complete2"}
  /\ LET r == completeBuild(sched.list[sched.idx],
                            IF sched.pc = "complete1" THEN COMPLETED ELSE FAILED, now)
     IN IF r.outcome = "loaded"
          THEN /\ sched' = [sched EXCEPT !.build = r.build,
                              !.pc = IF sched.pc = "complete1" THEN "save1" ELSE "save2"]
               /\ UNCHANGED isProcessing
          ELSE SchedCatch(r.outcome)
  /\ UNCHANGED <<now, resources, builds, lock, sb, lastFire, rec, calls, paid, faults, timer, out>>

\* save of completeBuild resolves.
TickSave ==
  /\ sched.pc \in {"save1", "save2"}
  /\ builds' = SaveBuild(sched.build)
  /\ SchedAdvance
  /\ UNCHANGED <<now, resources, lock, sb, lastFire, rec, calls, paid, faults, timer, out>>

\* findOne or save of completeBuild rejects.
TickStoreFail ==
  /\ sched.pc \in {"complete1", "complete2", "save1", "save2"}
  /\ CanFail
  /\ faults' = faults + 1
  /\ SchedCatch(StoreErrorMsg)
  /\ UNCHANGED <<now, resources, builds, lock, sb, lastFire, rec, calls, paid, timer, out>>

Scheduler == TickFire \/ TickQuery \/ TickQueryFail \/ TickLoad \/ TickSave \/ TickStoreFail

\* ------------------------------------------- recoverCompletedBuilds
RecAdvance(recovered) ==
  IF rec.idx < Len(rec.list)
    THEN rec' = [rec EXCEPT !.pc = "complete", !.idx = @ + 1, !.build = NoBuild,
                            !.recovered = recovered]
    ELSE rec' = [IdleRec EXCEPT !.pc = "done", !.recovered = recovered,
                                !.outcome = "returned", !.err = rec.err]

\* onModuleInit calls recoverCompletedBuilds, which calls
\* getBuildsToComplete: the clock is read and bound as :now.
RecStart ==
  /\ rec.pc = "idle"
  /\ rec' = [rec EXCEPT !.pc = "query", !.now = now]
  /\ UNCHANGED <<now, resources, builds, lock, sb, sched, isProcessing, lastFire, calls, paid, faults, timer, out>>

\* getMany of getBuildsToComplete resolves: the list holds the entities as
\* loaded now, of the rows that were due at the time of the call.
RecQuery ==
  /\ rec.pc = "query"
  /\ \E l \in getBuildsToComplete(rec.now) :
       IF l = <<>>
         THEN rec' = [IdleRec EXCEPT !.pc = "done", !.outcome = "returned"]
         ELSE rec' = [rec EXCEPT !.pc = "complete", !.idx = 1, !.now = Null,
                                 !.list = [i \in 1..Len(l) |-> builds[l[i]]]]
  /\ UNCHANGED <<now, resources, builds, lock, sb, sched, isProcessing, lastFire, calls, paid, faults, timer, out>>

\* getBuildsToComplete rejects: recoverCompletedBuilds throws.
RecQueryFail ==
  /\ rec.pc = "query"
  /\ CanFail
  /\ faults' = faults + 1
  /\ rec' = [IdleRec EXCEPT !.pc = "done", !.outcome = "threw", !.err = StoreErrorMsg]
  /\ UNCHANGED <<now, resources, builds, lock, sb, sched, isProcessing, lastFire, calls, paid, timer, out>>

\* findOne of completeBuild resolves; a throw enters the catch block, which
\* marks the entity of the list and calls save.
RecLoad ==
  /\ rec.pc = "complete"
  /\ LET r == completeBuild(rec.list[rec.idx].id, COMPLETED, now)
     IN IF r.outcome = "loaded"
          THEN rec' = [rec EXCEPT !.pc = "save", !.build = r.build]
          ELSE rec' = [rec EXCEPT !.pc = "markFailed", !.err = r.outcome]
  /\ UNCHANGED <<now, resources, builds, lock, sb, sched, isProcessing, lastFire, calls, paid, faults, timer, out>>

\* save of completeBuild resolves: recovered++.
RecSave ==
  /\ rec.pc = "save"
  /\ builds' = SaveBuild(rec.build)
  /\ RecAdvance(rec.recovered + 1)
  /\ UNCHANGED <<now, resources, lock, sb, sched, isProcessing, lastFire, calls, paid, faults, timer, out>>

\* findOne or save of completeBuild rejects.
RecStoreFail ==
  /\ rec.pc \in {"complete", "save"}
  /\ CanFail
  /\ faults' = faults + 1
  /\ rec' = [rec EXCEPT !.pc = "markFailed", !.err = StoreErrorMsg, !.build = NoBuild]
  /\ UNCHANGED <<now, resources, builds, lock, sb, sched, isProcessing, lastFire, calls, paid, timer, out>>

\* Mutant: the catch block gives the costs of the record back to its user.
RecMarkFailedRefunds ==
  /\ rec.pc = "markFailed"
  /\ builds' = SaveBuild(MarkFailed(rec.list[rec.idx], rec.err))
  /\ resources' = [resources EXCEPT ![rec.list[rec.idx].userId] =
                     Plus(@, [wood |-> rec.list[rec.idx].woodCost,
                              clay |-> rec.list[rec.idx].clayCost,
                              iron |-> rec.list[rec.idx].ironCost,
                              crop |-> rec.list[rec.idx].cropCost])]
  /\ RecAdvance(rec.recovered)
  /\ UNCHANGED <<now, lock, sb, sched, isProcessing, lastFire, calls, paid, faults, timer, out>>

\* save of the catch block resolves.
RecMarkFailed ==
  /\ rec.pc = "markFailed"
  /\ builds' = SaveBuild(MarkFailed(rec.list[rec.idx], rec.err))
  /\ RecAdvance(rec.recovered)
  /\ UNCHANGED <<now, resources, lock, sb, sched, isProcessing, lastFire, calls, paid, faults, timer, out>>

\* save of the catch block rejects: recoverCompletedBuilds throws.
RecMarkFailedFail ==
  /\ rec.pc = "markFailed"
  /\ CanFail
  /\ faults' = faults + 1
  /\ rec' = [IdleRec EXCEPT !.pc = "done", !.outcome = "threw", !.err = StoreErrorMsg,
                            !.recovered = rec.recovered]
  /\ UNCHANGED <<now, resources, builds, lock, sb, sched, isProcessing, lastFire, calls, paid, timer, out>>

Recovery ==
  \/ RecStart \/ RecQuery \/ RecQueryFail \/ RecLoad \/ RecSave
  \/ RecStoreFail \/ RecMarkFailed \/ RecMarkFailedFail

\* ------------------------------------------------ in-memory BuildTimer
AlreadyExistsMsg == "already exists"

\* Mutant: the bounds are exclusive.
TimerValidateDurationStrict(options, duration) ==
  IF duration <= options.minDuration THEN FALSE
  ELSE IF options.maxDuration # Infinity /\ duration >= options.maxDuration THEN FALSE
  ELSE TRUE

\* BuildTimer.validateDuration.
TimerValidateDuration(options, duration) ==
  IF duration < options.minDuration THEN FALSE
  ELSE IF options.maxDuration # Infinity /\ duration > options.maxDuration THEN FALSE
  ELSE TRUE

\* this.builds.set(buildId, result)
MapSet(m, id, e) == [x \in DOMAIN m \cup {id} |-> IF x = id THEN e ELSE m[x]]

\* this.builds.delete(buildId)
MapDelete(m, id) == [x \in DOMAIN m \ {id} |-> m[x]]

\* The result object startBuild creates at time t.
TimerNewEntry(id, t) ==
  [buildId |-> id, startTime |-> t, endTime |-> Null, duration |-> Null,
   status |-> RUNNING, isValid |-> TRUE]

\* The updatedResult object stopBuild creates at time t.
TimerStoppedEntry(options, build, t, status) ==
  [build EXCEPT !.endTime = t, !.duration = t - build.startTime,
                !.status = status,
                !.isValid = TimerValidateDuration(options, t - build.startTime)]

\* Mutant: the has() check is missing, an existing entry is started afresh.
TimerStartBuildOverwrites(id) ==
  /\ timer' = [timer EXCEPT !.builds = MapSet(@, id, TimerNewEntry(id, now))]
  /\ out' = [op |-> "startBuild", arg |-> <<id>>, threw |-> "none",
             value |-> TimerNewEntry(id, now)]
  /\ UNCHANGED <<now, resources, builds, lock, sb, sched, isProcessing, lastFire, rec,
                 calls, paid, faults>>

\* BuildTimer.startBuild(buildId)
TimerStartBuild(id) ==
  /\ IF id \in DOMAIN timer.builds
       THEN /\ out' = [op |-> "startBuild", arg |-> <<id>>, threw |-> AlreadyExistsMsg,
                       value |-> << >>]
            /\ UNCHANGED timer
       ELSE /\ timer' = [timer EXCEPT !.builds = MapSet(@, id, TimerNewEntry(id, now))]
            /\ out' = [op |-> "startBuild", arg |-> <<id>>, threw |-> "none",
                       value |-> TimerNewEntry(id, now)]
  /\ UNCHANGED <<now, resources, builds, lock, sb, sched, isProcessing, lastFire, rec,
                 calls, paid, faults>>

\* Mutant: the status check is missing, a stopped build is stopped again.
TimerStopBuildNoGuard(id, status) ==
  /\ IF id \notin DOMAIN timer.builds
       THEN /\ out' = [op |-> "stopBuild", arg |-> <<id, status>>, threw |-> NotFoundMsg,
                       value |-> << >>]
            /\ UNCHANGED timer
       ELSE LET e == TimerStoppedEntry(timer.options, timer.builds[id], now, status)
            IN /\ timer' = [timer EXCEPT !.builds = MapSet(@, id, e)]
               /\ out' = [op |-> "stopBuild", arg |-> <<id, status>>, threw |-> "none",
                          value |-> e]
  /\ UNCHANGED <<now, resources, builds, lock, sb, sched, isProcessing, lastFire, rec,
                 calls, paid, faults>>

\* BuildTimer.stopBuild(buildId, status)
TimerStopBuild(id, status) ==
  /\ IF id \notin DOMAIN timer.builds
       THEN /\ out' = [op |-> "stopBuild", arg |-> <<id, status>>, threw |-> NotFoundMsg,
                       value |-> << >>]
            /\ UNCHANGED timer
       ELSE IF timer.builds[id].status # RUNNING
         THEN /\ out' = [op |-> "stopBuild", arg |-> <<id, status>>,
                         threw |-> NotRunningMsg, value |-> << >>]
              /\ UNCHANGED timer
         ELSE LET e == TimerStoppedEntry(timer.options, timer.builds[id], now, status)
              IN /\ timer' = [timer EXCEPT !.builds = MapSet(@, id, e)]
                 /\ out' = [op |-> "stopBuild", arg |-> <<id, status>>, threw |-> "none",
                            value |-> e]
  /\ UNCHANGED <<now, resources, builds, lock, sb, sched, isProcessing, lastFire, rec,
                 calls, paid, faults>>

\* Math.abs(serverEndTime - clientTime)
Abs(x) == IF x < 0 THEN -x ELSE x

\* Mutant: a build that is still running is compared as if it ended at 0.
validateClientEndTimeNoEndCheck(id, clientEndTime, toleranceMs) ==
  IF id \notin DOMAIN timer.builds THEN FALSE
  ELSE IF timer.builds[id].endTime = Null THEN Abs(0 - clientEndTime) <= toleranceMs
  ELSE Abs(timer.builds[id].endTime - clientEndTime) <= toleranceMs

\* BuildTimer.validateClientEndTime: the value returned.
validateClientEndTime(id, clientEndTime, toleranceMs) ==
  IF id \notin DOMAIN timer.builds THEN FALSE
  ELSE IF timer.builds[id].endTime = Null THEN FALSE
  ELSE Abs(timer.builds[id].endTime - clientEndTime) <= toleranceMs

\* A call of validateClientEndTime.
TimerValidateClientEndTime(id, t, tol) ==
  /\ out' = [op |-> "validateClientEndTime", arg |-> <<id, t, tol>>, threw |-> "none",
             value |-> validateClientEndTime(id, t, tol)]
  /\ UNCHANGED <<now, resources, builds, lock, sb, sched, isProcessing, lastFire, rec,
                 calls, paid, faults, timer>>

\* BuildTimer.clearBuild(buildId)
TimerClearBuild(id) ==
  /\ timer' = [timer EXCEPT !.builds = MapDelete(@, id)]
  /\ out' = [op |-> "clearBuild", arg |-> <<id>>, threw |-> "none", value |-> << >>]
  /\ UNCHANGED <<now, resources, builds, lock, sb, sched, isProcessing, lastFire, rec,
                 calls, paid, faults>>

\* BuildTimer.clearAllBuilds()
TimerClearAllBuilds ==
  /\ timer' = [timer EXCEPT !.builds = << >>]
  /\ out' = [op |-> "clearAllBuilds", arg |-> << >>, threw |-> "none", value |-> << >>]
  /\ UNCHANGED <<now, resources, builds, lock, sb, sched, isProcessing, lastFire, rec,
                 calls, paid, faults>>

\* ------------------------------------------------- specifications
\* The requests of the runs that include the scheduler and the sweep.
TimerDto ==
  {dto \in StartBuildDto :
     /\ dto.userId = "u1"
     /\ dto.clayCost = Absent
     /\ dto.cropCost = Absent
     /\ (dto.duration = 1 <=> dto.woodCost = 60)}

Next == StartBuild(TimerDto) \/ Scheduler \/ Recovery \/ Advance

\* Start requests, scheduler ticks and the recovery sweep, interleaved.
Spec == Init /\ [][Next]_vars

\* The turns of a tick after its fire: each awaited store operation settles.
SchedStep == TickQuery \/ TickQueryFail \/ TickLoad \/ TickSave \/ TickStoreFail

\* The timer keeps firing and every store operation a tick awaits settles
\* (resolves or rejects).
SpecFair == Spec /\ WF_vars(SchedStep) /\ WF_vars(TickFire)

\* ----------------------------------------------- restart after a crash
\* The requests that created the records found on disk at a restart.
PersistDto ==
  {dto \in StartBuildDto :
     /\ dto.userId = "u1"
     /\ dto.clayCost = Absent /\ dto.ironCost = Absent /\ dto.cropCost = Absent}

\* A record on disk at the restart (time 1): started at time 0 and still
\* Running, or due at time 1 and completed or failed by a tick then.
PersistedRecord ==
  {NewBuild(dto, 0) : dto \in PersistDto}
  \cup {CompleteEntity(NewBuild(dto, 0), 1, st) :
          dto \in {d \in PersistDto : d.duration = 1}, st \in {COMPLETED, FAILED}}

RECURSIVE Spent(_)
\* The summed costs of the records of the sequence s.
Spent(s) ==
  IF s = <<>> THEN NoRes
  ELSE Plus([wood |-> Head(s).woodCost, clay |-> Head(s).clayCost,
             iron |-> Head(s).ironCost, crop |-> Head(s).cropCost], Spent(Tail(s)))

\* The registries a crashed run can leave: ids in insertion order, costs
\* covered by the user's initial balance.
PersistedBuilds ==
  {s \in UNION {[1..n -> PersistedRecord] : n \in 0..MaxRecords} :
     InitBalance["u1"].wood >= Spent(s).wood}

InitRecover ==
  /\ now = 1
  /\ \E s \in PersistedBuilds :
       /\ builds = [i \in 1..Len(s) |-> [s[i] EXCEPT !.id = i]]
       /\ resources = [InitBalance EXCEPT !["u1"] = Minus(@, Spent(s))]
       /\ paid = [u \in Users |-> IF u = "u1" THEN Spent(s) ELSE NoRes]
       /\ calls = Len(s)
  /\ lock = [u \in Users |-> 0]
  /\ sb = [p \in Procs |-> IdleCall]
  /\ sched = IdleSched
  /\ isProcessing = FALSE
  /\ lastFire = "none"
  /\ rec = IdleRec
  /\ faults = 0
  /\ timer = BuildTimer(NoOptions)
  /\ out = NoOut

\* The turns of a sweep that runs alone: its catch block is entered only by a
\* store error, and its save rejects only on a second one, which is out of
\* the fault budget of these runs.
SweepAlone ==
  \/ RecStart \/ RecQuery \/ RecQueryFail \/ RecLoad \/ RecSave
  \/ RecStoreFail \/ RecMarkFailed

\* The recovery sweep alone, on the records a crashed run left behind.
SpecRecover == InitRecover /\ [][SweepAlone \/ Advance]_vars

\* The start path alone, over every request.
SpecStart == Init /\ [][StartBuild(StartBuildDto) \/ Advance]_vars

\* The requests startBuild(dto) can be called with when nothing has checked
\* the duration: the service takes any number.
AnyDurationDto ==
  {[userId |-> "u1", buildType |-> t, duration |-> d,
    woodCost |-> 60, clayCost |-> Absent, ironCost |-> Absent, cropCost |-> Absent] :
      t \in BuildTypes, d \in {-1, 0, 1}}

\* The start path alone, called with any duration.
SpecAnyDuration == Init /\ [][StartBuild(AnyDurationDto) \/ Advance]_vars

\* The service called with any duration, with the tick and the sweep: a
\* record of duration 0 is due in the instant it is stored.
SpecAnyComplete ==
  Init /\ [][StartBuild(AnyDurationDto) \/ Scheduler \/ Recovery \/ Advance]_vars

\* ------------------------------------------- the registry's read queries
\* A call of getUserBuilds(userId): the rows returned.
GetUserBuilds(u) ==
  /\ \E l \in getUserBuilds(u) :
       out' = [op |-> "getUserBuilds", arg |-> <<u>>, threw |-> "none",
               value |-> [k \in 1..Len(l) |-> builds[l[k]]]]
  /\ UNCHANGED <<now, resources, builds, lock, sb, sched, isProcessing, lastFire, rec,
                 calls, paid, faults, timer>>

\* A call of getRunningBuilds(): the rows returned.
GetRunningBuilds ==
  /\ \E l \in getRunningBuilds :
       out' = [op |-> "getRunningBuilds", arg |-> << >>, threw |-> "none",
               value |-> [k \in 1..Len(l) |-> builds[l[k]]]]
  /\ UNCHANGED <<now, resources, builds, lock, sb, sched, isProcessing, lastFire, rec,
                 calls, paid, faults, timer>>

\* The requests behind the rows of the registries that are queried: either
\* user, no cost.
RegistryDto ==
  {dto \in StartBuildDto :
     /\ dto.userId \in Users
     /\ dto.woodCost = Absent /\ dto.clayCost = Absent
     /\ dto.ironCost = Absent /\ dto.cropCost = Absent}

\* A row of such a registry: started at time 0 or 1 and due by MaxTime, still
\* Running; or started at 0, due at 1 and completed or failed then.
RegistryRecord ==
  {NewBuild(dto, t) : dto \in {d \in RegistryDto : d.duration = 1}, t \in {0, 1}}
  \cup {NewBuild(dto, 0) : dto \in {d \in RegistryDto : d.duration <= MaxTime}}
  \cup {CompleteEntity(NewBuild(dto, 0), 1, st) :
          dto \in {d \in RegistryDto : d.duration = 1}, st \in {COMPLETED, FAILED}}

\* The registry holds up to MaxRecords rows, in any order of insertion.
InitRegistry ==
  /\ now = MaxTime
  /\ \E s \in UNION {[1..n -> RegistryRecord] : n \in 0..MaxRecords} :
       builds = [i \in 1..Len(s) |-> [s[i] EXCEPT !.id = i]]
  /\ resources = InitBalance
  /\ lock = [u \in Users |-> 0]
  /\ sb = [p \in Procs |-> IdleCall]
  /\ sched = IdleSched
  /\ isProcessing = FALSE
  /\ lastFire = "none"
  /\ rec = IdleRec
  /\ calls = 0
  /\ paid = [u \in Users |-> NoRes]
  /\ faults = 0
  /\ timer = BuildTimer(NoOptions)
  /\ out = NoOut

\* The read queries, called on a registry at rest.
SpecRegistry ==
  InitRegistry /\ [][(\E u \in UserIds : GetUserBuilds(u)) \/ GetRunningBuilds]_vars

\* A timer constructed with any of the options; the service is not running.
InitTimer ==
  /\ now = 0
  /\ resources = InitBalance
  /\ builds = <<>>
  /\ lock = [u \in Users |-> 0]
  /\ sb = [p \in Procs |-> IdleCall]
  /\ sched = IdleSched
  /\ isProcessing = FALSE
  /\ lastFire = "none"
  /\ rec = IdleRec
  /\ calls = 0
  /\ paid = [u \in Users |-> NoRes]
  /\ faults = 0
  /\ timer \in {BuildTimer(o) : o \in TimerOptions}
  /\ out = NoOut

TimerNext ==
  \/ \E id \in TimerIds : TimerStartBuild(id)
  \/ \E id \in TimerIds, status \in {COMPLETED, FAILED} : TimerStopBuild(id, status)
  \/ \E id \in TimerIds, t \in 0..MaxTime, tol \in Tolerances :
        TimerValidateClientEndTime(id, t, tol)
  \/ \E id \in TimerIds : TimerClearBuild(id)
  \/ TimerClearAllBuilds
  \/ Advance

\* The calls of the in-memory BuildTimer, in any order, as time passes.
SpecTimer == InitTimer /\ [][TimerNext]_vars

\* The requests of u1 that take one time unit: wood 60, clay 60 or nothing,
\* so that two of them can both be paid from wood 100 and clay 60.
CostDto ==
  {dto \in StartBuildDto :
     dto.userId = "u1" /\ dto.duration = 1 /\ dto.cropCost = Absent}

\* The service with the tick and the sweep, on requests with costs.
SpecCost == Init /\ [][StartBuild(CostDto) \/ Scheduler \/ Recovery \/ Advance]_vars

\* ============================================================ claims
InTx == {"savingRes", "savingBuild", "committing"}

\* commitTransaction of the call of handler p resolves in this step.
Committed(p) == sb[p].pc = "committing" /\ sb'[p].pc = "releasing"

\* The call of handler p returns its build in this step.
Returned(p) == sb[p].pc = "releasing" /\ sb'[p].pc = "done" /\ sb'[p].result = "ok"

\* The resource check of the call of handler p throws in this step.
Refused(p) ==
  /\ sb[p].pc = "begun" /\ sb'[p].pc = "rollingBack"
  /\ sb'[p].err = "InsufficientResources"

\* The step is one of the call of handler p, and no store operation
\* rejects in it.
Resolves(p) == sb'[p] # sb[p] /\ faults' = faults

RECURSIVE AwaitingReturn(_, _)
\* The summed costs of the calls of user u, among the handlers 1..n, that
\* have committed and not yet returned.
AwaitingReturn(u, n) ==
  IF n = 0 THEN NoRes
  ELSE Plus(AwaitingReturn(u, n - 1),
            IF sb[n].pc = "releasing" /\ sb[n].tx = "committed" /\ sb[n].dto.userId = u
              THEN DtoCost(sb[n].dto) ELSE NoRes)

BuildCost(b) ==
  [wood |-> b.woodCost, clay |-> b.clayCost, iron |-> b.ironCost, crop |-> b.cropCost]

\* Some resource of the request costs more than the balance bal holds.
Exceeds(bal, dto) ==
  \/ CostOf(dto.woodCost) > bal.wood
  \/ CostOf(dto.clayCost) > bal.clay
  \/ CostOf(dto.ironCost) > bal.iron
  \/ CostOf(dto.cropCost) > bal.crop

RECURSIVE RecordedCost(_, _)
\* The summed costs of the first n build records that belong to user u.
RecordedCost(u, n) ==
  IF n = 0 THEN NoRes
  ELSE Plus(RecordedCost(u, n - 1),
            IF builds[n].userId = u THEN BuildCost(builds[n]) ELSE NoRes)

\* C1: concurrent startBuild calls of one user are serialized at the row
\* lock: the ledger is the initial balance minus the costs of exactly the
\* calls that returned a build (and of those that have committed and are
\* about to return); a call inside its transaction still holds the balance
\* it read; a call commits only from a balance that covers its costs, is
\* refused only by one that does not, and returns a build only when it has
\* committed.
C1_Ledger ==
  /\ \A u \in Users :
       resources[u] =
         Minus(InitBalance[u], Plus(paid[u], AwaitingReturn(u, Cardinality(Procs))))
  /\ \A p \in Procs : sb[p].pc \in InTx =>
       /\ lock[sb[p].dto.userId] = p
       /\ sb[p].ur = Minus(resources[sb[p].dto.userId], DtoCost(sb[p].dto))
  /\ \A p, q \in Procs :
       (p # q /\ sb[p].pc \in InTx /\ sb[q].pc \in InTx) =>
          sb[p].dto.userId # sb[q].dto.userId

C1_Step ==
  \A p \in Procs :
    /\ Committed(p) =>
         /\ ~ Exceeds(resources[sb[p].dto.userId], sb[p].dto)
         /\ resources'[sb[p].dto.userId] =
              Minus(resources[sb[p].dto.userId], DtoCost(sb[p].dto))
    /\ Refused(p) =>
         /\ Exceeds(resources[sb[p].dto.userId], sb[p].dto)
         /\ resources' = resources
    /\ Returned(p) => sb[p].tx = "committed"

C1_Serialized == [] C1_Ledger /\ [][C1_Step]_vars

\* C2: startBuild is all-or-nothing: every balance is the initial balance
\* minus the costs recorded in the user's build records, whatever calls
\* failed and wherever they failed.
C2_AllOrNothing ==
  /\ \A u \in Users : resources[u] = Minus(InitBalance[u], RecordedCost(u, Len(builds)))
  /\ \A i \in BuildIds : builds[i].userId \in Users

\* A call was rolled back by a store error after another one committed a
\* build with a cost.
C2_Witness ==
  /\ Len(builds) = 1
  /\ BuildCost(builds[1]) # NoRes
  /\ faults = 1
  /\ \E p \in Procs : sb[p].pc = "done" /\ sb[p].result = "StoreError"
                       /\ sb[p].tx = "rolledback"

\* C3: a startBuild call that returns a build has deducted exactly its
\* costs from the user's balance, and the returned record is the stored
\* one: Running, valid, of the user and type asked for, with
\* executeAt = startTime + duration.
C3_Step ==
  \A p \in Procs :
    /\ Committed(p) =>
         LET dto == sb[p].dto
             b == sb'[p].ret
         IN /\ resources'[dto.userId] = Minus(resources[dto.userId], DtoCost(dto))
            /\ Len(builds') = Len(builds) + 1
            /\ builds'[b.id] = b
            /\ b.id = Len(builds')
            /\ b.status = RUNNING /\ b.isValid
            /\ b.userId = dto.userId /\ b.buildType = dto.buildType
            /\ b.executeAt = b.startTime + dto.duration
            /\ BuildCost(b) = DtoCost(dto)
    /\ Returned(p) =>
         /\ sb[p].tx = "committed"
         /\ sb'[p].ret = sb[p].ret
         /\ sb[p].ret.id \in BuildIds
         /\ resources' = resources /\ builds' = builds

C3_SuccessEffect == [][C3_Step]_vars

\* A call of u1 for duration 2 with a clay cost returned its stored build.
C3_Witness ==
  \E p \in Procs :
    /\ sb[p].result = "ok"
    /\ sb[p].ret.clayCost = 60
    /\ sb[p].ret.executeAt = sb[p].ret.startTime + 2
    /\ builds[sb[p].ret.id] = sb[p].ret
    /\ resources["u1"] = Minus(InitBalance["u1"], BuildCost(sb[p].ret))

\* C4: a call one of whose costs exceeds the balance is refused with
\* InsufficientResources, rolled back, and changes no balance and no record.
C4_Step ==
  \A p \in Procs :
    LET dto == sb[p].dto
    IN /\ (/\ sb[p].pc = "begun" /\ Resolves(p)
            /\ dto.userId \in DOMAIN resources
            /\ Exceeds(resources[dto.userId], dto))
           => /\ sb'[p].pc = "rollingBack"
              /\ sb'[p].err = "InsufficientResources"
       /\ (sb[p].pc = "rollingBack" /\ Resolves(p))
           => /\ sb'[p].pc = "releasing" /\ sb'[p].tx = "rolledback"
              /\ sb'[p].err = sb[p].err
              /\ \A u \in Users : lock'[u] # p
       /\ (sb[p].pc = "releasing" /\ sb[p].err = "InsufficientResources" /\ Resolves(p))
           => sb'[p].pc = "done" /\ sb'[p].result = "InsufficientResources"
       /\ (/\ sb'[p] # sb[p]
            /\ (sb[p].err = "InsufficientResources" \/ sb'[p].err = "InsufficientResources"))
           => resources' = resources /\ builds' = builds
       /\ sb'[p].result = "InsufficientResources" => sb'[p].tx = "rolledback"

C4_InsufficientNoEffect == [][C4_Step]_vars

\* A call whose wood cost was affordable and whose crop cost was not has
\* been refused; the ledger and the registry are as they were.
C4_Witness ==
  \E p \in Procs :
    /\ sb[p].pc = "done" /\ sb[p].result = "InsufficientResources"
    /\ sb[p].tx = "rolledback"
    /\ sb[p].dto.userId = "u1"
    /\ sb[p].dto.woodCost = 60 /\ sb[p].dto.cropCost = 60
    /\ resources = InitBalance
    /\ builds = <<>>

NonNegative(bal) == bal.wood >= 0 /\ bal.clay >= 0 /\ bal.iron >= 0 /\ bal.crop >= 0

\* C5: whatever start requests, scheduler ticks and recovery sweeps have
\* run, no resource quantity of any user is negative.
C5_NonNegative == \A u \in DOMAIN resources : NonNegative(resources[u])

\* A build has been paid and completed, a second request was refused, and
\* the balance stands at wood 40.
C5_Witness ==
  /\ resources["u1"].wood = 40
  /\ \E i \in BuildIds : builds[i].status = COMPLETED /\ builds[i].woodCost = 60
  /\ \E p \in Procs : sb[p].result = "InsufficientResources"

Terminal(b) == b.status \in {COMPLETED, FAILED}

\* C6: the status of a build record that is Completed or Failed never
\* changes again.
C6_StatusMonotone ==
  [][\A i \in BuildIds : Terminal(builds[i]) => builds'[i].status = builds[i].status]_vars

\* C7: a completeBuild call that finds its record terminal is rejected
\* (the tick goes to its catch, the sweep to its catch with the not-running
\* message) and changes no build record.
C7_Step ==
  /\ (/\ sched.pc \in {"complete1", "complete2"}
      /\ sched' # sched
      /\ faults' = faults
      /\ Terminal(builds[sched.list[sched.idx]]))
     => /\ builds' = builds
        /\ sched'.pc = IF sched.pc = "complete1" THEN "complete2" ELSE "idle"
  /\ (/\ rec.pc = "complete"
      /\ rec' # rec
      /\ faults' = faults
      /\ Terminal(builds[rec.list[rec.idx].id]))
     => /\ builds' = builds
        /\ rec'.pc = "markFailed"
        /\ rec'.err = NotRunningMsg

C7_SecondCompleteRejected == [][C7_Step]_vars

\* The sweep called completeBuild on a record the tick had completed and
\* was rejected with the not-running message.
C7_Witness ==
  /\ rec.pc = "markFailed"
  /\ rec.err = NotRunningMsg
  /\ builds[rec.list[rec.idx].id].status = COMPLETED
  /\ faults = 0

\* C8: of the completion attempts on one record only the first writes it:
\* once the record is terminal its status, endTime and duration stay as the
\* first writer stored them.
C8_SingleWriter ==
  [][\A i \in BuildIds :
       Terminal(builds[i]) =>
         /\ builds'[i].status = builds[i].status
         /\ builds'[i].endTime = builds[i].endTime
         /\ builds'[i].duration = builds[i].duration]_vars

\* C9: a tick that has started its loop ends only after it has attempted
\* the last record of its due list.
C9_BatchExhausted ==
  [][(sched.pc \in {"complete1", "save1", "complete2", "save2"} /\ sched'.pc = "idle")
       => sched.idx = Len(sched.list)]_vars

\* C10: no record is stored with status Failed and a null errorMessage.
C10_FailedHasMessage ==
  \A i \in BuildIds : builds[i].status = FAILED => builds[i].errorMessage # NullMsg

\* C11: the scheduler never runs two batches at once: the flag is set exactly
\* while a batch is in progress; a batch is started only by a timer fire that
\* finds no batch in progress; a fire that finds one in progress changes
\* nothing but the note that it was skipped, and the end of a batch leaves
\* the scheduler idle, with no fire pending.
C11_Step ==
  /\ (sched' # sched /\ sched'.pc = "query") =>
        (TickFire /\ sched.pc = "idle" /\ ~ isProcessing)
  /\ (TickFire /\ isProcessing) =>
        (/\ lastFire' = "skipped"
         /\ UNCHANGED <<now, resources, builds, lock, sb, sched, isProcessing, rec,
                        calls, paid, faults, timer, out>>)
  /\ (sched.pc # "idle" /\ sched'.pc # sched.pc) =>
        sched'.pc \in {"idle", "complete1", "save1", "complete2", "save2"}

C11_NoOverlap == [](isProcessing <=> sched.pc # "idle") /\ [][C11_Step]_vars

\* A timer fire arrived while the batch was completing a record and was
\* skipped.
C11_Witness ==
  /\ lastFire = "skipped"
  /\ isProcessing
  /\ sched.pc \in {"complete1", "save1"}

\* C12: a tick that has set the flag always clears it again, whether the
\* due query, a completion or the fallback completion throws: the scheduler
\* never stays in a batch for ever.
C12_TickReturns == isProcessing ~> ~ isProcessing

\* A tick whose completion threw wrote the record as Failed through its
\* fallback and has returned: the scheduler is idle, the flag is clear.
C12_Witness ==
  /\ ~ isProcessing
  /\ sched.pc = "idle"
  /\ lastFire = "started"
  /\ faults = 1
  /\ \E i \in BuildIds : builds[i].status = FAILED /\ builds[i].errorMessage = NullMsg

\* C13: while the timer keeps firing and no store operation rejects, every
\* Running record whose executeAt has passed becomes Completed, with a
\* duration of at least the duration asked for at its start
\* (executeAt - startTime); the ticks alone are relied on.
C13_EventuallyCompleted ==
  \A i \in 1..MaxCalls :
    (/\ i \in BuildIds
     /\ builds[i].status = RUNNING
     /\ builds[i].executeAt <= now
     /\ faults = 0)
    ~> (\/ /\ i \in BuildIds
           /\ builds[i].status = COMPLETED
           /\ builds[i].duration >= builds[i].executeAt - builds[i].startTime
        \/ faults > 0)

\* With no sweep and no store error, a record asked for duration 1 was
\* completed by a tick one time unit late, with duration 2.
C13_Witness ==
  /\ faults = 0
  /\ rec.pc = "idle"
  /\ \E i \in BuildIds :
       /\ builds[i].status = COMPLETED
       /\ builds[i].executeAt - builds[i].startTime = 1
       /\ builds[i].duration = 2

\* The ids of the records of the sweep's due list.
RecListIds == {rec.list[k].id : k \in 1..Len(rec.list)}

\* C14: with no tick, the sweep alone completes the due Running records:
\* its due list holds exactly the Running records with executeAt at or
\* before the time at which it issued its query; each is stored as Completed with endTime the
\* time of its completion and duration endTime - startTime; the sweep returns
\* only when all of them are Completed; no other record is written.
C14_Step ==
  /\ (rec.pc = "query" /\ rec'.pc # "query" /\ faults' = faults) =>
        {rec'.list[k].id : k \in 1..Len(rec'.list)} =
          {i \in BuildIds : builds[i].status = RUNNING /\ builds[i].executeAt <= rec.now}
  /\ (rec.pc = "complete" /\ rec'.pc = "save") =>
        (rec'.build.endTime = now /\ rec'.build.status = COMPLETED)
  /\ (rec.pc = "save" /\ rec'.pc # "save" /\ faults' = faults) =>
        LET i == rec.list[rec.idx].id
        IN /\ builds[i].status = RUNNING
           /\ builds'[i] = [builds[i] EXCEPT !.status = COMPLETED,
                                              !.endTime = rec.build.endTime,
                                              !.duration = rec.build.endTime - builds[i].startTime,
                                              !.isValid = TRUE]
           /\ builds'[i].endTime >= builds[i].executeAt
  /\ \A i \in BuildIds :
        builds'[i] # builds[i] =>
          (i \in RecListIds /\ i = rec.list[rec.idx].id /\ rec.pc \in {"save", "markFailed"})
  /\ (rec.pc # "done" /\ rec'.pc = "done" /\ faults' = 0) =>
        (/\ rec'.outcome = "returned"
         /\ \A i \in RecListIds : builds'[i].status = COMPLETED)

C14_SweepAlone == [][C14_Step]_vars /\ [](lastFire = "none")

\* The sweep ran at time 1 with no store error: it completed the record due
\* at time 1 (endTime 1, duration 1) and left the Running record due at
\* time 2 as it was.
C14_Witness ==
  /\ rec.pc = "done" /\ rec.outcome = "returned" /\ rec.recovered = 1
  /\ faults = 0
  /\ now = 1
  /\ Len(builds) >= 2
  /\ builds[1].status = COMPLETED /\ builds[1].endTime = 1 /\ builds[1].duration = 1
  /\ builds[2].status = RUNNING /\ builds[2].executeAt = 2
  /\ builds[2].endTime = Null

\* C15: the count the sweep returns goes up by one exactly when the sweep
\* itself moves a record from Running to Completed; it does not go up for a
\* record whose completion failed or that another caller had already made
\* terminal.
C15_Step ==
  /\ rec'.recovered # rec.recovered =>
        (/\ rec'.recovered = rec.recovered + 1
         /\ rec.pc = "save"
         /\ builds[rec.list[rec.idx].id].status = RUNNING
         /\ builds'[rec.list[rec.idx].id].status = COMPLETED)
  /\ (/\ rec' # rec
      /\ \E i \in BuildIds : builds[i].status = RUNNING /\ builds'[i].status = COMPLETED)
     => rec'.recovered = rec.recovered + 1

C15_CountsOwnCompletions == [][C15_Step]_vars

\* C16: the failure of one record never reaches the caller: a tick always
\* returns with the flag clear, and a sweep that is in its loop neither
\* throws nor returns before it has handled the last record of its list.
C16_Step ==
  /\ (sched.pc # "idle" /\ sched'.pc = "idle") => ~ isProcessing'
  /\ rec.pc \in {"complete", "save", "markFailed"} =>
        (/\ rec'.outcome # "threw"
         /\ rec'.pc = "done" => rec.idx = Len(rec.list))

C16_NoPropagation == [][C16_Step]_vars

\* C17: whatever the registry holds and whatever time t the call reads as
\* its now, every result of getBuildsToComplete lists each Running record
\* with executeAt <= t exactly once (executeAt = t included), lists no record
\* with executeAt > t and no Completed or Failed record, and is ascending in
\* executeAt.
C17_DueQuery ==
  \A t \in 0..now :
    \A l \in getBuildsToComplete(t) :
      /\ \A i \in BuildIds :
           (\E k \in 1..Len(l) : l[k] = i)
             <=> (builds[i].status = RUNNING /\ builds[i].executeAt <= t)
      /\ \A k \in 1..Len(l) : l[k] \in BuildIds
      /\ \A j, k \in 1..Len(l) :
           j < k => (l[j] # l[k] /\ builds[l[j]].executeAt <= builds[l[k]].executeAt)

\* The sweep queried at time 2 a registry of a Running record due at 1, a
\* Running record due at 2 and a terminal record due at 1: its list is the
\* two Running records, the one due at 1 first.
C17_Witness ==
  /\ now = 2
  /\ rec.pc = "complete" /\ rec.idx = 1
  /\ Len(rec.list) = 2
  /\ rec.list[1].executeAt = 1 /\ rec.list[2].executeAt = 2
  /\ builds[rec.list[1].id].status = RUNNING
  /\ builds[rec.list[2].id].status = RUNNING
  /\ \E i \in BuildIds : Terminal(builds[i]) /\ builds[i].executeAt = 1

\* C18: no step changes the executeAt, startTime, userId or buildType of a
\* record that exists: not a completion by a tick or by the sweep, not the
\* sweep's marking a record Failed, not a later startBuild call.
C18_Step ==
  \A i \in BuildIds :
    /\ i \in 1..Len(builds')
    /\ builds'[i].executeAt = builds[i].executeAt
    /\ builds'[i].startTime = builds[i].startTime
    /\ builds'[i].userId = builds[i].userId
    /\ builds'[i].buildType = builds[i].buildType

C18_ExecuteAtFixed == [][C18_Step]_vars

\* A record started at time 0 and due at time 1 was marked Failed by the
\* sweep, and a second startBuild call has committed its record at time 2:
\* the first record still has startTime 0 and executeAt 1.
C18_Witness ==
  /\ Len(builds) = 2
  /\ builds[1].status = FAILED /\ builds[1].errorMessage # NullMsg
  /\ builds[1].startTime = 0 /\ builds[1].executeAt = 1
  /\ builds[1].userId = "u1" /\ builds[1].buildType = "barracks"
  /\ builds[2].startTime = 2

\* C19: a startBuild call with a duration of 0 or less has no effect: it
\* never holds the row lock or a pending deduction, and no record exists
\* whose executeAt is not after its startTime.
C19_InvalidDurationRejected ==
  /\ \A p \in Procs : sb[p].pc \in InTx => sb[p].dto.duration > 0
  /\ \A u \in Users : lock[u] # 0 => sb[lock[u]].dto.duration > 0
  /\ \A i \in BuildIds : builds[i].executeAt > builds[i].startTime

\* C20: a startBuild call for a user with no balance row ends with NotFound
\* and a rolled back transaction, and changes no record, no balance and no
\* lock; no balance row is ever created; getBuild of an id that no record
\* has fails with NotFound, and of a stored id returns the stored record.
C20_Step ==
  \A p \in Procs :
    /\ (/\ sb[p].pc = "begun" /\ Resolves(p)
         /\ sb[p].dto.userId \notin DOMAIN resources)
        => /\ sb'[p].pc = "rollingBack" /\ sb'[p].err = "NotFound"
           /\ lock' = lock
    /\ (sb[p].pc = "rollingBack" /\ sb[p].err = "NotFound" /\ Resolves(p))
        => /\ sb'[p].pc = "releasing" /\ sb'[p].tx = "rolledback"
           /\ sb'[p].err = "NotFound"
           /\ lock' = lock
    /\ (sb[p].pc = "releasing" /\ sb[p].err = "NotFound" /\ Resolves(p))
        => sb'[p].pc = "done" /\ sb'[p].result = "NotFound"
    /\ (sb'[p] # sb[p] /\ (sb[p].err = "NotFound" \/ sb'[p].err = "NotFound"))
        => resources' = resources /\ builds' = builds
    /\ sb'[p].result = "NotFound" => sb'[p].tx = "rolledback"

C20_GetBuild ==
  \A id \in 0..(MaxCalls + 1) :
    IF \E i \in BuildIds : builds[i].id = id
      THEN getBuild(id).outcome = "ok" /\ getBuild(id).build = builds[id]
      ELSE getBuild(id).outcome = NotFoundMsg

C20_NotFound ==
  /\ [][C20_Step]_vars
  /\ [](DOMAIN resources = Users /\ C20_GetBuild)

\* A call for "u0", who has no row, ended with NotFound and a rollback
\* while one record is stored: getBuild(1) returns it, getBuild(2) fails.
C20_Witness ==
  /\ \E p \in Procs : /\ sb[p].pc = "done" /\ sb[p].result = "NotFound"
                       /\ sb[p].tx = "rolledback"
  /\ "u0" \notin DOMAIN resources
  /\ Len(builds) = 1
  /\ getBuild(1).outcome = "ok" /\ getBuild(1).build.id = 1
  /\ getBuild(2).outcome = NotFoundMsg

\* C21: a step of a startBuild call leaves every existing record as it is;
\* the status, endTime or duration of a record changes only in a step of the
\* scheduler tick or of the recovery sweep (a save of theirs resolving).
C21_Step ==
  /\ sb' # sb => \A i \in BuildIds : builds'[i] = builds[i]
  /\ \A i \in BuildIds :
        (\/ builds'[i].status # builds[i].status
         \/ builds'[i].endTime # builds[i].endTime
         \/ builds'[i].duration # builds[i].duration)
        => /\ sb' = sb
           /\ \/ sched.pc \in {"save1", "save2"} /\ sched' # sched
              \/ rec.pc \in {"save", "markFailed"} /\ rec' # rec

C21_NoClientCompletion == [][C21_Step]_vars

\* A second startBuild call has committed its record while the first
\* record, due since time 1, is still Running with no endTime, no tick and
\* no sweep having run.
C21_Witness ==
  /\ Len(builds) = 2
  /\ now = 2
  /\ builds[1].executeAt = 1
  /\ builds[1].status = RUNNING /\ builds[1].endTime = Null /\ builds[1].duration = Null
  /\ builds[2].startTime = 2
  /\ lastFire = "none" /\ rec.pc = "idle"

\* The user a call is for.
CallUser(p) == sb[p].dto.userId

\* C22: a step of a startBuild call for user u changes no balance, no lock
\* and no record of another user; what the call does when it has read u's
\* row depends on u's balance alone; and a call is never kept waiting by a
\* transaction on another user's row, so calls for different users that
\* would each succeed alone are in their transactions together.
C22_Step ==
  \A p \in Procs :
    (sb[p].pc \notin {"idle", "done"} /\ sb'[p] # sb[p]) =>
      /\ \A v \in Users \ {CallUser(p)} :
            resources'[v] = resources[v] /\ lock'[v] = lock[v]
      /\ \A i \in BuildIds : builds'[i] = builds[i]
      /\ \A i \in 1..Len(builds') : i \notin BuildIds => builds'[i].userId = CallUser(p)
      /\ (sb[p].pc = "begun" /\ faults' = faults /\ CallUser(p) \in Users) =>
            IF Exceeds(resources[CallUser(p)], sb[p].dto)
              THEN sb'[p].err = "InsufficientResources"
              ELSE sb'[p].pc = "savingRes"

C22_NotBlocked ==
  \A p \in Procs :
    (sb[p].pc = "begun" /\ CallUser(p) \in Users /\ lock[CallUser(p)] = 0)
      => ENABLED StartBuildFind(p)

C22_UsersIndependent == [][C22_Step]_vars /\ []C22_NotBlocked

\* A call for u1 and a call for u2 are both about to commit, each holding
\* the lock of its own row, and each has deducted its costs from its own
\* balance.
C22_Witness ==
  \E p, q \in Procs :
    /\ sb[p].pc = "committing" /\ sb[q].pc = "committing"
    /\ CallUser(p) = "u1" /\ CallUser(q) = "u2"
    /\ lock["u1"] = p /\ lock["u2"] = q
    /\ sb[p].ur = Minus(InitBalance["u1"], DtoCost(sb[p].dto))
    /\ sb[q].ur = Minus(InitBalance["u2"], DtoCost(sb[q].dto))
    /\ DtoCost(sb[q].dto) # NoRes

\* The number of positions of the sequence v that hold the record b.
Occurrences(v, b) == Cardinality({k \in 1..Len(v) : v[k] = b})

\* C23: what getUserBuilds(u) returned holds each record of user u exactly
\* once, whatever its status, and nothing else, latest startTime first; what
\* getRunningBuilds returned holds each Running record exactly once and
\* nothing else, earliest executeAt first.
C23_Queries ==
  /\ out.op = "getUserBuilds" =>
        /\ \A i \in BuildIds :
              Occurrences(out.value, builds[i]) =
                (IF builds[i].userId = out.arg[1] THEN 1 ELSE 0)
        /\ \A k \in 1..Len(out.value) : \E i \in BuildIds : out.value[k] = builds[i]
        /\ \A j, k \in 1..Len(out.value) :
              j < k => out.value[j].startTime >= out.value[k].startTime
  /\ out.op = "getRunningBuilds" =>
        /\ \A i \in BuildIds :
              Occurrences(out.value, builds[i]) =
                (IF builds[i].status = RUNNING THEN 1 ELSE 0)
        /\ \A k \in 1..Len(out.value) : \E i \in BuildIds : out.value[k] = builds[i]
        /\ \A j, k \in 1..Len(out.value) :
              j < k => out.value[j].executeAt <= out.value[k].executeAt

\* getUserBuilds("u1") on a registry of an older terminal record of u1, a
\* newer Running record of u1 and a record of u2 returned the newer record,
\* then the older one.
C23_Witness ==
  /\ out.op = "getUserBuilds" /\ out.arg = <<"u1">>
  /\ Len(out.value) = 2
  /\ out.value[1].startTime = 1 /\ out.value[1].status = RUNNING
  /\ out.value[2].startTime = 0 /\ Terminal(out.value[2])
  /\ Len(builds) = 3
  /\ \E i \in BuildIds : builds[i].userId = "u2"

\* A call of the BuildTimer operation op has just returned or thrown.
Called(op) == out'.op = op /\ <<timer, out>>' # <<timer, out>>

\* C24: BuildTimer.startBuild of an id that has an entry, running or
\* stopped, throws 'already exists' and leaves the Map as it is; otherwise
\* it adds exactly one entry, for that id: running, started now, endTime and
\* duration null, isValid true, and returns it.
C24_Step ==
  Called("startBuild") =>
    LET id == out'.arg[1]
    IN IF id \in DOMAIN timer.builds
         THEN out'.threw = AlreadyExistsMsg /\ timer' = timer
         ELSE /\ out'.threw = "none"
              /\ DOMAIN timer'.builds = DOMAIN timer.builds \cup {id}
              /\ \A x \in DOMAIN timer.builds : timer'.builds[x] = timer.builds[x]
              /\ timer'.builds[id] =
                    [buildId |-> id, startTime |-> now, endTime |-> Null,
                     duration |-> Null, status |-> RUNNING, isValid |-> TRUE]
              /\ out'.value = timer'.builds[id]
              /\ timer'.options = timer.options

C24_TimerStart == [][C24_Step]_vars

\* startBuild("b1") threw 'already exists' on a timer that holds b1,
\* stopped earlier, and b2, running: both entries are as they were.
C24_Witness ==
  /\ out.op = "startBuild" /\ out.arg = <<"b1">> /\ out.threw = AlreadyExistsMsg
  /\ DOMAIN timer.builds = {"b1", "b2"}
  /\ timer.builds["b1"].status = COMPLETED /\ timer.builds["b1"].endTime = 1
  /\ timer.builds["b2"].status = RUNNING
  /\ now = 2

\* C25: BuildTimer.stopBuild throws 'not found' for an id with no entry and
\* 'is not running' for an entry that is stopped, and changes nothing then;
\* an entry that is stopped keeps its endTime, duration, status and isValid
\* for as long as it is in the Map.
C25_Step ==
  /\ Called("stopBuild") =>
        LET id == out'.arg[1]
        IN /\ id \notin DOMAIN timer.builds =>
                (out'.threw = NotFoundMsg /\ timer' = timer)
           /\ (id \in DOMAIN timer.builds /\ timer.builds[id].status # RUNNING) =>
                (out'.threw = NotRunningMsg /\ timer' = timer)
  /\ \A x \in DOMAIN timer.builds :
        (timer.builds[x].status # RUNNING /\ x \in DOMAIN timer'.builds) =>
          timer'.builds[x] = timer.builds[x]

C25_TimerStopOnce == [][C25_Step]_vars

\* stopBuild("b1", 'completed') threw 'is not running' at time 2 on an
\* entry stopped as failed at time 1, which is as it was.
C25_Witness ==
  /\ out.op = "stopBuild" /\ out.arg = <<"b1", COMPLETED>> /\ out.threw = NotRunningMsg
  /\ now = 2
  /\ timer.builds["b1"].status = FAILED
  /\ timer.builds["b1"].endTime = 1 /\ timer.builds["b1"].duration = 1

\* C26: a BuildTimer.stopBuild(id, s) that returns has replaced the entry
\* of id, and only that one, by the same entry with status s, endTime the
\* time of the call, duration endTime - startTime and isValid true exactly
\* when minDuration <= duration and, a maximum being set, duration <=
\* maxDuration; s has no part in isValid.
C26_Step ==
  (Called("stopBuild") /\ out'.threw = "none") =>
    LET id == out'.arg[1]
        d == now - timer.builds[id].startTime
    IN /\ timer.builds[id].status = RUNNING
       /\ timer'.builds[id] =
             [timer.builds[id] EXCEPT
                !.status = out'.arg[2], !.endTime = now, !.duration = d,
                !.isValid = /\ timer.options.minDuration <= d
                            /\ (timer.options.maxDuration = Infinity
                                 \/ d <= timer.options.maxDuration)]
       /\ out'.value = timer'.builds[id]
       /\ DOMAIN timer'.builds = DOMAIN timer.builds
       /\ \A x \in DOMAIN timer.builds \ {id} : timer'.builds[x] = timer.builds[x]

C26_TimerStopEffect ==
  /\ [][C26_Step]_vars
  /\ [](timer.options \in {[minDuration |-> a, maxDuration |-> b] :
                              a \in {0, 1}, b \in {1, Infinity}})

\* With minDuration = maxDuration = 1, b1 was stopped as failed after
\* exactly 1 and is valid; b2 was stopped as completed after 2 and is not.
C26_Witness ==
  /\ timer.options = [minDuration |-> 1, maxDuration |-> 1]
  /\ DOMAIN timer.builds = {"b1", "b2"}
  /\ timer.builds["b1"].status = FAILED /\ timer.builds["b1"].duration = 1
  /\ timer.builds["b1"].isValid
  /\ timer.builds["b2"].status = COMPLETED /\ timer.builds["b2"].duration = 2
  /\ ~ timer.builds["b2"].isValid
  /\ out.op = "stopBuild"

\* C27: BuildTimer.validateClientEndTime(id, t, tol) returns true exactly
\* when id has an entry that is stopped and whose endTime differs from t by
\* at most tol, and changes nothing.
C27_Step ==
  Called("validateClientEndTime") =>
    LET id == out'.arg[1]
        t == out'.arg[2]
        tol == out'.arg[3]
    IN /\ timer' = timer
       /\ out'.threw = "none"
       /\ out'.value =
             (/\ id \in DOMAIN timer.builds
              /\ timer.builds[id].status # RUNNING
              /\ timer.builds[id].endTime - t <= tol
              /\ t - timer.builds[id].endTime <= tol)

C27_TimerClientEndTime == [][C27_Step]_vars

\* Asked about b1, stopped at time 0, with client time 1 and tolerance 1,
\* the timer returned true while b2 is still running.
C27_Witness ==
  /\ out.op = "validateClientEndTime" /\ out.arg = <<"b1", 1, 1>>
  /\ out.value = TRUE
  /\ timer.builds["b1"].endTime = 0
  /\ "b2" \in DOMAIN timer.builds /\ timer.builds["b2"].status = RUNNING

\* C28: a completeBuild(id, status) that finds its record Running at time
\* now hands to save that record with endTime = now, duration = now -
\* startTime, the requested status and isValid = (duration > 0), nothing
\* else changed; the save that resolves stores exactly this entity.
C28_Step ==
  /\ (sched.pc \in {"complete1", "complete2"} /\ sched'.pc \in {"save1", "save2"}) =>
        LET b == builds[sched.list[sched.idx]]
        IN /\ b.status = RUNNING
           /\ sched'.build =
                 [b EXCEPT !.endTime = now, !.duration = now - b.startTime,
                           !.status = IF sched.pc = "complete1" THEN COMPLETED ELSE FAILED,
                           !.isValid = (now - b.startTime > 0)]
  /\ (sched.pc \in {"save1", "save2"} /\ sched' # sched /\ faults' = faults) =>
        builds' = [builds EXCEPT ![sched.build.id] = sched.build]
  /\ (rec.pc = "complete" /\ rec'.pc = "save") =>
        LET b == builds[rec.list[rec.idx].id]
        IN /\ b.status = RUNNING
           /\ rec'.build =
                 [b EXCEPT !.endTime = now, !.duration = now - b.startTime,
                           !.status = COMPLETED, !.isValid = (now - b.startTime > 0)]
  /\ (rec.pc = "save" /\ rec' # rec /\ faults' = faults) =>
        builds' = [builds EXCEPT ![rec.build.id] = rec.build]

C28_CompleteEffect == [][C28_Step]_vars

\* A record asked for with duration 0 at time 1 was completed, by the
\* tick's first call, in the instant it was started: endTime = startTime,
\* duration 0, not valid.
C28_Witness ==
  \E i \in BuildIds :
    /\ builds[i].status = COMPLETED /\ builds[i].startTime = 1
    /\ builds[i].endTime = 1 /\ builds[i].duration = 0
    /\ ~ builds[i].isValid

\* C29: a build record has an endTime and a duration exactly when its
\* status is Completed or Failed: a Running record has neither, and a
\* record the tick or the sweep, its catch block included, made terminal
\* has both.
C29_EndTimeIffTerminal ==
  \A i \in BuildIds :
    (builds[i].endTime # Null /\ builds[i].duration # Null) <=> Terminal(builds[i])

\* C30: the status of every stored build record is Running, Completed or
\* Failed, never Pending; the same holds of the record a startBuild call
\* returned and of the entities the tick and the sweep hand to save.
C30_NeverPending ==
  /\ \A i \in BuildIds : builds[i].status \in {RUNNING, COMPLETED, FAILED}
  /\ \A p \in Procs :
       sb[p].result = "ok" => sb[p].ret.status \in {RUNNING, COMPLETED, FAILED}
  /\ sched.pc \in {"save1", "save2"} => sched.build.status \in {COMPLETED, FAILED}
  /\ rec.pc = "save" => rec.build.status = COMPLETED
  /\ \A k \in 1..Len(rec.list) : rec.list[k].status = RUNNING

\* A startBuild call has just returned its record, Running, while an
\* older record of the registry is Failed.
C30_Witness ==
  \E p \in Procs, i \in BuildIds :
    /\ sb[p].result = "ok" /\ sb[p].ret.status = RUNNING
    /\ sb[p].ret.id \in BuildIds /\ builds[sb[p].ret.id].status = RUNNING
    /\ builds[i].status = FAILED

\* C31: the cost fields of the record a startBuild call stores are the
\* quantities that call took from the user's balance, and no later step of
\* any operation, be it another startBuild, a completion by the tick or the
\* sweep, changes the cost fields of a stored record.
C31_Step ==
  /\ \A p \in Procs :
       Committed(p) =>
         LET id == sb'[p].ret.id
             u == sb[p].dto.userId
         IN /\ id \notin BuildIds /\ id \in DOMAIN builds'
            /\ builds'[id].userId = u
            /\ BuildCost(builds'[id]) = Minus(resources[u], resources'[u])
            /\ BuildCost(sb'[p].ret) = BuildCost(builds'[id])
  /\ \A i \in BuildIds :
       i \in DOMAIN builds' /\ BuildCost(builds'[i]) = BuildCost(builds[i])

C31_CostsFixed == [][C31_Step]_vars

\* The first record, paid with wood 60, has been completed, and a second
\* startBuild has since taken clay 60 from the same balance: the first
\* record still says wood 60 and no clay.
C31_Witness ==
  /\ Len(builds) = 2
  /\ builds[1].status \in {COMPLETED, FAILED}
  /\ BuildCost(builds[1]) = [NoRes EXCEPT !.wood = 60]
  /\ BuildCost(builds[2]) = [NoRes EXCEPT !.clay = 60]
  /\ resources["u1"] = Minus(InitBalance["u1"], [NoRes EXCEPT !.wood = 60, !.clay = 60])

\* C32: as long as no store operation has failed, no build record is
\* Failed: started by successful startBuild calls and closed by ticks and
\* by the one sweep, which may overlap a tick, every record that left
\* Running is Completed.
C32_NoFailedWithoutFault ==
  faults = 0 => \A i \in BuildIds : builds[i].status # FAILED

\* C33, the steps: a record leaves Running only at a time that has reached
\* its executeAt.
C33_Step ==
  \A i \in BuildIds :
    (builds[i].status = RUNNING /\ builds'[i].status # RUNNING) =>
      builds[i].executeAt <= now

\* C33, the times of a terminal record that has a duration.
C33_Order ==
  \A i \in BuildIds :
    (Terminal(builds[i]) /\ builds[i].duration # Null) =>
      /\ builds[i].startTime <= builds[i].executeAt
      /\ builds[i].executeAt <= builds[i].endTime
      /\ builds[i].duration >= builds[i].executeAt - builds[i].startTime

\* C33, validity: a Completed record asked for with a duration of at least
\* 1 is valid.
C33_Valid ==
  \A i \in BuildIds :
    (builds[i].status = COMPLETED /\ builds[i].executeAt - builds[i].startTime >= 1) =>
      builds[i].isValid

\* C33: no build is finished early: a record leaves Running only at a time
\* now >= executeAt, so every terminal record with a duration has startTime
\* <= executeAt <= endTime and duration >= executeAt - startTime, and every
\* Completed record asked for with a duration of at least 1 is valid.
C33_NotEarly == [][C33_Step]_vars /\ []C33_Order /\ []C33_Valid

\* The balance a holds at most what the balance b holds, per resource.
AtMost(a, b) ==
  a.wood <= b.wood /\ a.clay <= b.clay /\ a.iron <= b.iron /\ a.crop <= b.crop

\* C34: no step of a tick or of the sweep, whether it stores a record as
\* Completed or as Failed, changes a balance, and no step of any operation
\* raises one: balances only go down.
C34_Step ==
  /\ (sched' # sched \/ rec' # rec \/ isProcessing' # isProcessing
       \/ lastFire' # lastFire) => resources' = resources
  /\ (\E i \in BuildIds : builds'[i] # builds[i]) => resources' = resources
  /\ \A u \in Users : AtMost(resources'[u], resources[u])

C34_NoRefund == [][C34_Step]_vars

\* The record paid with wood 60 was marked Failed by the sweep after a
\* store error and a record paid with clay 60 was completed: the balance is
\* still short of both.
C34_Witness ==
  \E i, j \in BuildIds :
    /\ builds[i].status = FAILED /\ BuildCost(builds[i]) = [NoRes EXCEPT !.wood = 60]
    /\ builds[j].status = COMPLETED /\ BuildCost(builds[j]) = [NoRes EXCEPT !.clay = 60]
    /\ faults = 1
    /\ resources["u1"] = Minus(InitBalance["u1"], [NoRes EXCEPT !.wood = 60, !.clay = 60])

====
